---- MODULE Spec2Model ----
(***************************************************************************)
(* A state-machine model of src/src/Orbit.js (class Orbit): the connection *)
(* lifecycle, the channel registry with its memoised joins, leave, and the *)
(* peer poller.  Every await of the source is a suspension point: a call   *)
(* is one action up to its first await, and the code after the await is a  *)
(* second action taken when the provider's promise settles, successfully   *)
(* or not.                                                                 *)
(***************************************************************************)
EXTENDS Integers, Sequences, FiniteSets, TLC

\* ---------------------------------------------------------------- bounds
MaxCreateInFlight == 2  \* createInstance calls suspended at the same time
MaxJoinCalls == 2     \* join() calls handed a promise of the queue
MaxLeaveCalls == 1    \* leave() calls per name, completed or in flight
MaxDiscInFlight == 2  \* disconnect() calls suspended at the same time
MaxPollInFlight == 1  \* poll cycles suspended at the same time
MaxPosts == 1         \* entries appended to one feed
MaxUploadsInFlight == 1  \* addFile() calls suspended at the same time

Names == {"a"}
JoinArgs == Names \cup {""}

Null == "null"
Undefined == "undefined"

\* connect(username): no argument, a string, or a value that is not a string
ConnectArgs ==
  { [type |-> "undefined", val |-> Undefined],
    [type |-> "string", val |-> "alice"],
    [type |-> "number", val |-> "42"] }

\* swarm.peers() replies: the addr of each entry, Undefined when it has none
PeerReplies == { <<>>, <<Undefined, "p1">> }

VARIABLES
  orbitdb,         \* this._orbitdb: 0 is null, 1 a provider instance
  userProfile,     \* this._userProfile: Null, or the profile's name
  optionsId,       \* this._options.id
  channels,        \* this._channels: name -> Channel instance (0: no entry)
  joiningQueue,    \* this._joiningQueue: name -> promise (0: no entry)
  connecting,      \* this._connecting
  pollPeersTimer,  \* this._pollPeersTimer: "null", "active" or "cleared"
  peers,           \* this._peers
  promises,        \* the promises join() created: [name, state, value, callers]
  createInFlight,  \* OrbitDB.createInstance calls not yet settled
  discInFlight,    \* _orbitdb.disconnect() calls not yet settled
  logsInFlight,    \* _orbitdb.log calls not yet settled: [name, promise]
  closeInFlight,   \* feed.close() calls not yet settled, per channel name
  pollInFlight,    \* swarm.peers() calls not yet settled
  nextChan,        \* the next Channel instance
  events,          \* what this.events emitted: counts, the last one, the last
                   \* of `connected`/`disconnected` and whether they alternated
  lastResult,      \* how the call that settled last ended
  quiet,           \* a disconnect completed and connect was not called since
  feeds,           \* the entries appended to the log of each channel name
  uploadsInFlight  \* _ipfs.add calls not yet settled: [channel, source]

vars == << orbitdb, userProfile, optionsId, channels, joiningQueue, connecting,
           pollPeersTimer, peers, promises, createInFlight, discInFlight,
           logsInFlight, closeInFlight, pollInFlight, nextChan,
           events, lastResult, quiet, feeds, uploadsInFlight >>

\* what only the posting pipeline (send, addFile) changes
postVars == << feeds, uploadsInFlight >>

\* ------------------------------------------------------------- helpers
online == orbitdb # 0

NoEvent == [kind |-> "none", name |-> ""]
Result(op, name, outcome) == [op |-> op, name |-> name, outcome |-> outcome]

\* this.events.emit(kind, ...) as an update of the emitted-events record
IsLifecycle(kind) == kind \in {"connected", "disconnected"}

\* the lifecycle notification that may follow one of kind `life`
FollowsInTurn(life, kind) ==
  IF kind = "connected" THEN life \in {"none", "disconnected"}
  ELSE life = "connected"

Emit(ev, kind, name) ==
  [ev EXCEPT !.last = [kind |-> kind, name |-> name],
             !.life = IF IsLifecycle(kind) THEN kind ELSE @,
             !.alternating = IF IsLifecycle(kind)
                             THEN @ /\ FollowsInTurn(ev.life, kind) ELSE @,
             !.joined = IF kind = "joined"
                        THEN [@ EXCEPT ![name] = @ + 1] ELSE @,
             !.left = IF kind = "left"
                      THEN [@ EXCEPT ![name] = @ + 1] ELSE @]

Init ==
  /\ orbitdb = 0
  /\ userProfile = Null
  /\ optionsId = Undefined
  /\ channels = [c \in Names |-> 0]
  /\ joiningQueue = [c \in Names |-> 0]
  /\ connecting = FALSE
  /\ pollPeersTimer = "null"
  /\ peers = <<>>
  /\ promises = <<>>
  /\ createInFlight = 0
  /\ discInFlight = 0
  /\ logsInFlight = {}
  /\ closeInFlight = [c \in Names |-> 0]
  /\ pollInFlight = 0
  /\ nextChan = 1
  /\ events = [last |-> NoEvent, joined |-> [c \in Names |-> 0],
               left |-> [c \in Names |-> 0],
               life |-> "none", alternating |-> TRUE]
  /\ lastResult = Result("none", "", "none")
  /\ quiet = FALSE
  /\ feeds = [c \in Names |-> <<>>]
  /\ uploadsInFlight = {}

\* ------------------------------------------------------------ connect
\* line 65-66: a username was passed and it is not a string
BadUsername(arg) == arg.type # "undefined" /\ arg.type # "string"

\* line 268: setInterval only when no timer handle is stored
StartPollingForPeers(timer) == IF timer = "null" THEN "active" ELSE timer

\* line 98: clearInterval leaves the handle in this._pollPeersTimer
ClearPollTimer(timer) == IF timer # "null" THEN "cleared" ELSE timer

\* connect(username) up to the await at line 78
Connect(arg) ==
  /\ quiet' = FALSE
  /\ \/ /\ orbitdb # 0
        /\ lastResult' = Result("connect", "", "AlreadyConnected")
        /\ UNCHANGED << connecting, optionsId, userProfile, createInFlight >>
     \/ /\ orbitdb = 0
        /\ connecting
        /\ lastResult' = Result("connect", "", "AlreadyConnecting")
        /\ UNCHANGED << connecting, optionsId, userProfile, createInFlight >>
     \/ /\ orbitdb = 0
        /\ ~connecting
        /\ BadUsername(arg)
        /\ connecting' = TRUE
        /\ lastResult' = Result("connect", "", "InvalidArgument")
        /\ UNCHANGED << optionsId, userProfile, createInFlight >>
     \/ /\ orbitdb = 0
        /\ ~connecting
        /\ ~BadUsername(arg)
        /\ createInFlight < MaxCreateInFlight
        /\ connecting' = TRUE
        /\ optionsId' = IF arg.type = "string" THEN arg.val ELSE optionsId
        /\ userProfile' = optionsId'
        /\ createInFlight' = createInFlight + 1
        /\ UNCHANGED lastResult
  /\ UNCHANGED << orbitdb, channels, joiningQueue, pollPeersTimer, peers,
                  promises, discInFlight, logsInFlight, closeInFlight,
                  pollInFlight, nextChan, events >>
  /\ UNCHANGED postVars

\* createInstance resolved: lines 78-84
ConnectDone ==
  /\ createInFlight > 0
  /\ createInFlight' = createInFlight - 1
  /\ orbitdb' = 1
  /\ pollPeersTimer' = StartPollingForPeers(pollPeersTimer)
  /\ IF userProfile = Null
     THEN \* line 82 reads this.userProfile.name of null and throws
          /\ lastResult' = Result("connect", "", "TypeError")
          /\ UNCHANGED events
     ELSE /\ events' = Emit(events, "connected", "")
          /\ lastResult' = Result("connect", "", "ok")
  /\ UNCHANGED << userProfile, optionsId, channels, joiningQueue, connecting,
                  peers, promises, discInFlight, logsInFlight, closeInFlight,
                  pollInFlight, nextChan, quiet >>
  /\ UNCHANGED postVars

\* createInstance rejected: connect rejects at line 78
ConnectFail ==
  /\ createInFlight > 0
  /\ createInFlight' = createInFlight - 1
  /\ lastResult' = Result("connect", "", "ProviderFailure")
  /\ UNCHANGED << orbitdb, userProfile, optionsId, channels, joiningQueue,
                  connecting, pollPeersTimer, peers, promises, discInFlight,
                  logsInFlight, closeInFlight, pollInFlight, nextChan,
                  events, quiet >>
  /\ UNCHANGED postVars

\* --------------------------------------------------------- disconnect
\* disconnect() up to the await at line 92
Disconnect ==
  /\ \/ /\ orbitdb = 0
        /\ lastResult' = Result("disconnect", "", "noop")
        /\ UNCHANGED discInFlight
     \/ /\ orbitdb # 0
        /\ discInFlight < MaxDiscInFlight
        /\ discInFlight' = discInFlight + 1
        /\ UNCHANGED lastResult
  /\ UNCHANGED << orbitdb, userProfile, optionsId, channels, joiningQueue,
                  connecting, pollPeersTimer, peers, promises, createInFlight,
                  logsInFlight, closeInFlight, pollInFlight, nextChan,
                  events, quiet >>
  /\ UNCHANGED postVars

\* _orbitdb.disconnect() resolved: lines 93-100
DisconnectDone ==
  /\ discInFlight > 0
  /\ discInFlight' = discInFlight - 1
  /\ connecting' = FALSE
  /\ orbitdb' = 0
  /\ userProfile' = Null
  /\ channels' = [c \in Names |-> 0]
  /\ pollPeersTimer' = ClearPollTimer(pollPeersTimer)
  /\ events' = Emit(events, "disconnected", "")
  /\ lastResult' = Result("disconnect", "", "ok")
  /\ quiet' = TRUE
  /\ UNCHANGED << optionsId, joiningQueue, peers, promises, createInFlight,
                  logsInFlight, closeInFlight, pollInFlight, nextChan >>
  /\ UNCHANGED postVars

\* _orbitdb.disconnect() rejected: disconnect rejects at line 92
DisconnectFail ==
  /\ discInFlight > 0
  /\ discInFlight' = discInFlight - 1
  /\ lastResult' = Result("disconnect", "", "ProviderFailure")
  /\ UNCHANGED << orbitdb, userProfile, optionsId, channels, joiningQueue,
                  connecting, pollPeersTimer, peers, promises, createInFlight,
                  logsInFlight, closeInFlight, pollInFlight, nextChan,
                  events, quiet >>
  /\ UNCHANGED postVars

\* --------------------------------------------------------------- join
\* the number of join() calls that were handed a promise of the queue
RECURSIVE SumCallers(_)
SumCallers(ps) ==
  IF ps = <<>> THEN 0 ELSE Head(ps).callers + SumCallers(Tail(ps))

NewPromise(c, st) == [name |-> c, state |-> st, value |-> 0, callers |-> 1]

\* a join() that never finds the live Channel (the test of line 106 lost)
HasChannel_Never(c) == FALSE

\* line 106: this._channels[channelName] is set
HasChannel(c) == channels[c] # 0

\* a join() that never finds the pending entry (the test of line 108 lost)
HasJoinRequest_NoDedup(c) == FALSE

\* line 108: this._joiningQueue[channelName] is set
HasJoinRequest(c) == joiningQueue[c] # 0

\* join(channelName): lines 103-132, up to the return of the promise
Join(c) ==
  /\ UNCHANGED << orbitdb, userProfile, optionsId, channels, connecting,
                  pollPeersTimer, peers, createInFlight, discInFlight,
                  closeInFlight, pollInFlight, nextChan, events,
                  quiet >>
  /\ \/ /\ c = ""
        /\ lastResult' = Result("join", c, "InvalidArgument")
        /\ UNCHANGED << promises, joiningQueue, logsInFlight >>
     \/ /\ c # ""
        /\ HasChannel(c)
        /\ lastResult' = Result("join", c, "ok")
        /\ UNCHANGED << promises, joiningQueue, logsInFlight >>
     \/ /\ c # ""
        /\ ~HasChannel(c)
        /\ ~HasJoinRequest(c)
        /\ SumCallers(promises) < MaxJoinCalls
        /\ joiningQueue' = [joiningQueue EXCEPT ![c] = Len(promises) + 1]
        /\ IF orbitdb = 0
           THEN \* this._orbitdb.log throws in the executor: a rejected promise
                /\ promises' = Append(promises, NewPromise(c, "rejected"))
                /\ UNCHANGED logsInFlight
           ELSE /\ promises' = Append(promises, NewPromise(c, "pending"))
                /\ logsInFlight' = logsInFlight \cup
                     {[name |-> c, promise |-> Len(promises) + 1]}
        /\ UNCHANGED lastResult
     \/ /\ c # ""
        /\ ~HasChannel(c)
        /\ HasJoinRequest(c)
        /\ SumCallers(promises) < MaxJoinCalls
        /\ promises' = [promises EXCEPT ![joiningQueue[c]].callers = @ + 1]
        /\ UNCHANGED << joiningQueue, logsInFlight, lastResult >>
  /\ UNCHANGED postVars

\* _orbitdb.log resolved with a feed: the callback of lines 121-127
JoinDone(op) ==
  /\ op \in logsInFlight
  /\ logsInFlight' = logsInFlight \ {op}
  /\ channels' = [channels EXCEPT ![op.name] = nextChan]
  /\ nextChan' = nextChan + 1
  /\ events' = Emit(events, "joined", op.name)
  /\ joiningQueue' = [joiningQueue EXCEPT ![op.name] = 0]
  /\ promises' = [promises EXCEPT ![op.promise] =
                    [@ EXCEPT !.state = "resolved", !.value = nextChan]]
  /\ UNCHANGED << orbitdb, userProfile, optionsId, connecting, pollPeersTimer,
                  peers, createInFlight, discInFlight, closeInFlight,
                  pollInFlight, lastResult, quiet >>
  /\ UNCHANGED postVars

\* _orbitdb.log rejected: line 121 has no rejection handler, nothing runs
JoinFail(op) ==
  /\ op \in logsInFlight
  /\ logsInFlight' = logsInFlight \ {op}
  /\ UNCHANGED << orbitdb, userProfile, optionsId, channels, joiningQueue,
                  connecting, pollPeersTimer, peers, promises, createInFlight,
                  discInFlight, closeInFlight, pollInFlight, nextChan,
                  events, lastResult, quiet >>
  /\ UNCHANGED postVars

\* -------------------------------------------------------------- leave
\* leave(channelName) up to the await at line 138, or to its end
Leave(c) ==
  /\ events.left[c] + closeInFlight[c] < MaxLeaveCalls
  /\ \/ /\ channels[c] # 0
        /\ closeInFlight' = [closeInFlight EXCEPT ![c] = @ + 1]
        /\ UNCHANGED << events, lastResult >>
     \/ /\ channels[c] = 0
        /\ events' = Emit(events, "left", c)
        /\ lastResult' = Result("leave", c, "ok")
        /\ UNCHANGED closeInFlight
  /\ UNCHANGED << orbitdb, userProfile, optionsId, channels, joiningQueue,
                  connecting, pollPeersTimer, peers, promises, createInFlight,
                  discInFlight, logsInFlight, pollInFlight, nextChan,
                  quiet >>
  /\ UNCHANGED postVars

\* feed.close() resolved: lines 139-143
LeaveDone(c) ==
  /\ closeInFlight[c] > 0
  /\ closeInFlight' = [closeInFlight EXCEPT ![c] = @ - 1]
  /\ channels' = [channels EXCEPT ![c] = 0]
  /\ events' = Emit(events, "left", c)
  /\ lastResult' = Result("leave", c, "ok")
  /\ UNCHANGED << orbitdb, userProfile, optionsId, joiningQueue, connecting,
                  pollPeersTimer, peers, promises, createInFlight, discInFlight,
                  logsInFlight, pollInFlight, nextChan, quiet >>
  /\ UNCHANGED postVars

\* feed.close() rejected: leave rejects at line 138
LeaveFail(c) ==
  /\ closeInFlight[c] > 0
  /\ closeInFlight' = [closeInFlight EXCEPT ![c] = @ - 1]
  /\ lastResult' = Result("leave", c, "ProviderFailure")
  /\ UNCHANGED << orbitdb, userProfile, optionsId, channels, joiningQueue,
                  connecting, pollPeersTimer, peers, promises, createInFlight,
                  discInFlight, logsInFlight, pollInFlight, nextChan,
                  events, quiet >>
  /\ UNCHANGED postVars

\* --------------------------------------------------------- peer poller
\* _updateSwarmPeers, lines 274-276: drop the entries without addr
UpdateSwarmPeers(reply) == SelectSeq(reply, LAMBDA a : a # Undefined)

\* the interval timer fires: update() up to the await at line 273
PollTick ==
  /\ pollPeersTimer = "active"
  /\ pollInFlight < MaxPollInFlight
  /\ pollInFlight' = pollInFlight + 1
  /\ UNCHANGED << orbitdb, userProfile, optionsId, channels, joiningQueue,
                  connecting, pollPeersTimer, peers, promises, createInFlight,
                  discInFlight, logsInFlight, closeInFlight, nextChan,
                  events, lastResult, quiet >>
  /\ UNCHANGED postVars

\* swarm.peers() resolved: lines 274-276, then 260-262
PollDone(reply) ==
  /\ pollInFlight > 0
  /\ pollInFlight' = pollInFlight - 1
  /\ peers' = UpdateSwarmPeers(reply)
  /\ events' = Emit(events, "peers", "")
  /\ lastResult' = Result("poll", "", "ok")
  /\ UNCHANGED << orbitdb, userProfile, optionsId, channels, joiningQueue,
                  connecting, pollPeersTimer, promises, createInFlight,
                  discInFlight, logsInFlight, closeInFlight, nextChan,
                  quiet >>
  /\ UNCHANGED postVars

\* swarm.peers() rejected: caught at line 277, _updateSwarmPeers returns
\* undefined, and lines 260-262 store [] and emit it
PollFail ==
  /\ pollInFlight > 0
  /\ pollInFlight' = pollInFlight - 1
  /\ peers' = <<>>
  /\ events' = Emit(events, "peers", "")
  /\ lastResult' = Result("poll", "", "ProviderFailure")
  /\ UNCHANGED << orbitdb, userProfile, optionsId, channels, joiningQueue,
                  connecting, pollPeersTimer, promises, createInFlight,
                  discInFlight, logsInFlight, closeInFlight, nextChan,
                  quiet >>
  /\ UNCHANGED postVars

\* ------------------------------------------------------- specification
Next ==
  \/ \E arg \in ConnectArgs : Connect(arg)
  \/ ConnectDone
  \/ ConnectFail
  \/ Disconnect
  \/ DisconnectDone
  \/ DisconnectFail
  \/ \E c \in JoinArgs : Join(c)
  \/ \E op \in logsInFlight : JoinDone(op)
  \/ \E op \in logsInFlight : JoinFail(op)
  \/ \E c \in Names : Leave(c)
  \/ \E c \in Names : LeaveDone(c)
  \/ \E c \in Names : LeaveFail(c)
  \/ PollTick
  \/ \E reply \in PeerReplies : PollDone(reply)
  \/ PollFail

Spec == Init /\ [][Next]_vars

\* --------------------------------------------------- posting pipeline
\* line 154: the length a text message is cut to
TextLimit == 2048

\* a text is modelled by its length: 0 is the empty string
Texts == {0, 1, TextLimit, TextLimit + 1}

\* a substring that cuts nothing
Substring_NoCut(t, n) == t

\* message.substring(0, n) of a text of length t
Substring(t, n) == IF t > n THEN n ELSE t

TextContent(t) == [kind |-> "text", len |-> t]

\* the data object of lines 153-156 and 219-230 (ts and size left out); a
\* text post has no meta.name, written as the empty sequence
Post(content, from, type, name) ==
  [content |-> content, meta |-> [from |-> from, type |-> type, name |-> name]]

\* a send() that never misses the profile (the test of line 149 lost)
HasProfile_Always == TRUE

\* line 149: this.userProfile is set
HasProfile == userProfile # Null

\* _getChannelFeed, lines 250-255: "feed" when it returns the feed handle,
\* else the error it throws.  Line 252 reads `.feed` of the map's entry, so
\* a name without entry throws a TypeError there; a Channel always carries
\* the feed it was built with, so line 253 is never reached.
GetChannelFeed(c) ==
  IF c = "" THEN "InvalidArgument"
  ELSE IF channels[c] = 0 THEN "TypeError"
  ELSE "feed"

\* send(channelName, message): lines 146-159 with _postMessage, lines
\* 245-248; feed.add either takes the entry or rejects
Send(c, text) ==
  /\ \/ /\ c = ""
        /\ lastResult' = Result("send", c, "InvalidArgument")
        /\ UNCHANGED feeds
     \/ /\ c # ""
        /\ text = 0
        /\ lastResult' = Result("send", c, "InvalidArgument")
        /\ UNCHANGED feeds
     \/ /\ c # ""
        /\ text # 0
        /\ ~HasProfile
        /\ lastResult' = Result("send", c, "NotConnected")
        /\ UNCHANGED feeds
     \/ /\ c # ""
        /\ text # 0
        /\ HasProfile
        /\ GetChannelFeed(c) # "feed"
        /\ lastResult' = Result("send", c, GetChannelFeed(c))
        /\ UNCHANGED feeds
     \/ /\ c # ""
        /\ text # 0
        /\ HasProfile
        /\ GetChannelFeed(c) = "feed"
        /\ Len(feeds[c]) < MaxPosts
        /\ feeds' = [feeds EXCEPT ![c] = Append(@,
             Post(TextContent(Substring(text, TextLimit)), userProfile,
                  "text", <<>>))]
        /\ lastResult' = Result("send", c, "ok")
     \/ /\ c # ""
        /\ text # 0
        /\ HasProfile
        /\ GetChannelFeed(c) = "feed"
        /\ lastResult' = Result("send", c, "ProviderFailure")
        /\ UNCHANGED feeds
  /\ UNCHANGED << orbitdb, userProfile, optionsId, channels, joiningQueue,
                  connecting, pollPeersTimer, peers, promises, createInFlight,
                  discInFlight, logsInFlight, closeInFlight, pollInFlight,
                  nextChan, events, quiet, uploadsInFlight >>

\* The part of the lifecycle and of the registry that decides what a post
\* reads: _userProfile, _orbitdb and _channels.  The provider failures and
\* leave settle calls or remove a Channel, which yields no value of these
\* fields that connect, disconnect and join do not reach.
RegistryNext ==
  \/ \E arg \in ConnectArgs : Connect(arg)
  \/ ConnectDone
  \/ Disconnect
  \/ DisconnectDone
  \/ \E c \in JoinArgs : Join(c)
  \/ \E op \in logsInFlight : JoinDone(op)

\* text posts over the lifecycle and the registry
SendNext ==
  \/ RegistryNext
  \/ \E c \in JoinArgs, text \in Texts : Send(c, text)

SendSpec == Init /\ [][SendNext]_vars

\* ------------------------------------------------------------ addFile
\* A path is the sequence of its characters; <<>> is the empty string and
\* also an absent field, both falsy in the tests of lines 174 and 196-199.
NoPath == <<>>

\* the source objects addFile is called with
Sources ==
  { [filename |-> <<"a">>, directory |-> NoPath, buffer |-> TRUE,
     meta |-> [type |-> Undefined]],
    [filename |-> <<"d", "/", "a">>, directory |-> NoPath, buffer |-> FALSE,
     meta |-> [type |-> Undefined]],
    [filename |-> NoPath, directory |-> <<"h", "/", "d">>, buffer |-> FALSE,
     meta |-> [type |-> Undefined]],
    [filename |-> <<"a">>, directory |-> <<"h", "/", "d">>, buffer |-> FALSE,
     meta |-> [type |-> Undefined]],
    [filename |-> <<"a">>, directory |-> NoPath, buffer |-> FALSE,
     meta |-> [type |-> "image"]],
    [filename |-> NoPath, directory |-> NoPath, buffer |-> TRUE,
     meta |-> [type |-> Undefined]] }

\* result.path of the entry this._ipfs.add resolves with
ReplyPaths == { <<"a">>, <<"d">>, <<"d", "/", "a">> }

\* s.split('/')
RECURSIVE Split(_)
Split(s) ==
  IF \A i \in 1..Len(s) : s[i] # "/"
  THEN << s >>
  ELSE LET i == CHOOSE k \in 1..Len(s) :
                  s[k] = "/" /\ \A j \in 1..(k - 1) : s[j] # "/"
       IN << SubSeq(s, 1, i - 1) >> \o Split(SubSeq(s, i + 1, Len(s)))

\* array.pop(): the last element
Pop(parts) == parts[Len(parts)]

\* line 174: neither filename nor directory
InvalidSource(source) ==
  source.filename = NoPath /\ source.directory = NoPath

\* line 196
IsBuffer(source) == source.buffer /\ source.filename # NoPath

\* lines 197-199
SourceName(source) ==
  IF source.directory # NoPath
  THEN Pop(Split(source.directory))
  ELSE Pop(Split(source.filename))

\* isDirectory of an upload that compares the whole returned path
AddToIpfsGo_WholePath(filename, path) == path # filename

\* isDirectory of _addToIpfsGo, line 189
AddToIpfsGo(filename, path) == Pop(Split(path)) # filename

\* isDirectory of the upload chosen by lines 204-212; _addToIpfsJs (line
\* 180) never reports a directory
UploadIsDirectory(source, path) ==
  IF IsBuffer(source) THEN FALSE ELSE AddToIpfsGo(SourceName(source), path)

\* meta.type after Object.assign, lines 221-229: the caller's meta is
\* assigned last
PostType(source, path) ==
  IF source.meta.type # Undefined THEN source.meta.type
  ELSE IF UploadIsDirectory(source, path) THEN "directory" ELSE "file"

FileContent == [kind |-> "hash", len |-> 0]

\* addFile up to the await of line 214
AddFile(c, source) ==
  /\ \/ /\ InvalidSource(source)
        /\ lastResult' = Result("addFile", c, "InvalidArgument")
        /\ UNCHANGED uploadsInFlight
     \/ /\ ~InvalidSource(source)
        /\ Cardinality(uploadsInFlight) < MaxUploadsInFlight
        /\ [chan |-> c, source |-> source] \notin uploadsInFlight
        /\ uploadsInFlight' =
             uploadsInFlight \cup { [chan |-> c, source |-> source] }
        /\ UNCHANGED lastResult
  /\ UNCHANGED << orbitdb, userProfile, optionsId, channels, joiningQueue,
                  connecting, pollPeersTimer, peers, promises, createInFlight,
                  discInFlight, logsInFlight, closeInFlight, pollInFlight,
                  nextChan, events, quiet, feeds >>

\* this._ipfs.add resolved: lines 214-232 with _postMessage, lines 245-248
AddFileDone(op, path) ==
  /\ op \in uploadsInFlight
  /\ uploadsInFlight' = uploadsInFlight \ {op}
  /\ \/ /\ GetChannelFeed(op.chan) # "feed"
        /\ lastResult' = Result("addFile", op.chan, GetChannelFeed(op.chan))
        /\ UNCHANGED feeds
     \/ /\ GetChannelFeed(op.chan) = "feed"
        /\ Len(feeds[op.chan]) < MaxPosts
        /\ feeds' = [feeds EXCEPT ![op.chan] = Append(@,
             Post(FileContent, userProfile, PostType(op.source, path),
                  SourceName(op.source)))]
        /\ lastResult' = Result("addFile", op.chan, "ok")
     \/ /\ GetChannelFeed(op.chan) = "feed"
        /\ lastResult' = Result("addFile", op.chan, "ProviderFailure")
        /\ UNCHANGED feeds
  /\ UNCHANGED << orbitdb, userProfile, optionsId, channels, joiningQueue,
                  connecting, pollPeersTimer, peers, promises, createInFlight,
                  discInFlight, logsInFlight, closeInFlight, pollInFlight,
                  nextChan, events, quiet >>

\* this._ipfs.add rejected at line 214
AddFileFail(op) ==
  /\ op \in uploadsInFlight
  /\ uploadsInFlight' = uploadsInFlight \ {op}
  /\ lastResult' = Result("addFile", op.chan, "ProviderFailure")
  /\ UNCHANGED << orbitdb, userProfile, optionsId, channels, joiningQueue,
                  connecting, pollPeersTimer, peers, promises, createInFlight,
                  discInFlight, logsInFlight, closeInFlight, pollInFlight,
                  nextChan, events, quiet, feeds >>

\* file posts over a session and its registry: connect and join decide
\* whether a feed exists and which profile signs the post
FileNext ==
  \/ \E arg \in ConnectArgs : Connect(arg)
  \/ ConnectDone
  \/ \E c \in JoinArgs : Join(c)
  \/ \E op \in logsInFlight : JoinDone(op)
  \/ \E c \in JoinArgs, source \in Sources : AddFile(c, source)
  \/ \E op \in uploadsInFlight, path \in ReplyPaths : AddFileDone(op, path)
  \/ \E op \in uploadsInFlight : AddFileFail(op)

FileSpec == Init /\ [][FileNext]_vars

\* ------------------------------------------------------------- claims
PromiseIds == 1..Len(promises)

\* the _orbitdb.log call that promise p waits for is still in flight
OpenLogInFlight(p) == \E op \in logsInFlight : op.promise = p

\* C1: join deduplication.  At no time are two openLog calls for one name in
\* flight; all callers waiting for a name wait on one and the same
\* JoinRequest, which has exactly one openLog call behind it, so they all
\* resolve to the one Channel it creates; and each JoinRequest that resolved
\* emitted exactly one `joined` notification for its name.
C1_JoinDeduplication ==
  /\ \A o1, o2 \in logsInFlight : o1.name = o2.name => o1 = o2
  /\ \A p, q \in PromiseIds :
       ( /\ promises[p].name = promises[q].name
         /\ promises[p].state = "pending"
         /\ promises[q].state = "pending" ) => p = q
  /\ \A op \in logsInFlight :
       /\ op.promise \in PromiseIds
       /\ promises[op.promise].state = "pending"
       /\ joiningQueue[op.name] = op.promise
  /\ \A c \in Names :
       events.joined[c] =
         Cardinality({p \in PromiseIds : /\ promises[p].name = c
                                         /\ promises[p].state = "resolved"})
  /\ \A p, q \in PromiseIds :
       ( /\ promises[p].state = "resolved"
         /\ promises[q].state = "resolved"
         /\ p # q ) => promises[p].value # promises[q].value

\* C1 witness: two join() calls shared one JoinRequest, it resolved, the
\* Channel is registered and `joined` was emitted once
C1_Witness ==
  \E p \in PromiseIds :
    /\ promises[p].callers >= 2
    /\ promises[p].state = "resolved"
    /\ channels[promises[p].name] = promises[p].value
    /\ events.joined[promises[p].name] = 1

\* C2: when openLog fails, every caller awaiting the JoinRequest completes
\* with a failure: no JoinRequest stays pending once its openLog is over.
C2_JoinFailurePropagates ==
  \A p \in PromiseIds :
    (promises[p].state = "pending" /\ promises[p].callers > 0)
      => OpenLogInFlight(p)

\* C3: a pending-join entry exists only while its join is unresolved: an
\* entry in the table belongs to a join whose openLog is still outstanding.
C3_JoinRequestOnlyWhileUnresolved ==
  \A c \in Names :
    joiningQueue[c] # 0 =>
      /\ promises[joiningQueue[c]].state = "pending"
      /\ OpenLogInFlight(joiningQueue[c])

\* C4: after a disconnect() has completed and until connect() is called
\* again, online is false and the channel map is empty.
C4_DisconnectedStaysEmpty ==
  quiet => (~online /\ \A c \in Names : channels[c] = 0)

\* C5: after a disconnect() has completed and until connect() is called
\* again, no `peers` notification is emitted.
C5_NoPeersAfterDisconnect ==
  quiet => events.last.kind # "peers"

\* C6: every successful connect() starts the poller: in a state reached by
\* a connect that emitted `connected`, the recurring poll cycle is active.
C6_ConnectStartsPoller ==
  events.last.kind = "connected" => pollPeersTimer = "active"

\* C7: connect() begins an initialization only from Disconnected, so at
\* most one createInstance call is in flight at a time.
C7_SingleInitialization ==
  createInFlight <= 1

\* C8: disconnect() never fails: a disconnect() call that settled did so
\* without an error.
C8_DisconnectNeverFails ==
  lastResult.op = "disconnect" => lastResult.outcome \in {"ok", "noop"}

\* C9: leave(name) with no live Channel for name is a no-op: it closes no
\* feed handle, changes neither the channel map nor the pending-join table,
\* and emits no notification.
C9_LeaveWithoutChannelIsNoop ==
  [][\A c \in Names :
       (channels[c] = 0 /\ Leave(c)) =>
         UNCHANGED << closeInFlight, channels, joiningQueue, events >>]_vars

\* C10: leave(name) on a live Channel never fails: a leave() call that
\* settled did so without an error.
C10_LeaveNeverFails ==
  lastResult.op = "leave" => lastResult.outcome = "ok"

\* C11: for every channel name, a live Channel and a pending-join entry
\* never exist at the same time: the key sets of the channel map and of the
\* pending-join table are disjoint.
C11_ChannelXorJoinRequest ==
  \A c \in Names : ~(channels[c] # 0 /\ joiningQueue[c] # 0)

\* C11 witness: a join resolved and registered its Channel, its entry left
\* the table, and a further join() of the name was answered from the map
C11_Witness ==
  \E c \in Names :
    /\ channels[c] # 0
    /\ joiningQueue[c] = 0
    /\ lastResult = Result("join", c, "ok")

\* C16: a poll cycle whose peer query fails is skipped: it leaves the
\* PeerSet as it was and emits no notification (and the timer stays set).
C16_FailedPollIsSkipped ==
  [][(/\ lastResult' = Result("poll", "", "ProviderFailure")
      /\ pollInFlight' = pollInFlight - 1)
       => UNCHANGED << peers, events, pollPeersTimer >>]_vars

\* C17: the `connected` and `disconnected` notifications start with
\* `connected` and strictly alternate.
C17_LifecycleAlternates ==
  events.alternating

\* C18: whenever online is true the UserProfile is not null.
C18_OnlineHasProfile ==
  online => userProfile # Null

\* C20: a connect(username) that fails with InvalidArgument leaves the
\* manager as it was: Disconnected, not connecting, with no UserProfile
\* created, so that a later connect is not rejected.
C20_InvalidUsernameLeavesDisconnected ==
  [][\A arg \in ConnectArgs :
       (BadUsername(arg) /\ orbitdb = 0 /\ ~connecting /\ Connect(arg))
         => UNCHANGED << orbitdb, connecting, userProfile, createInFlight >>]_vars

\* C12: sendText fails with InvalidArgument when the channel name or the
\* text is empty and with NotConnected when there is no UserProfile; these
\* calls append nothing to any feed and change no registry state.
C12_SendRejectsBadCalls ==
  [][\A c \in JoinArgs, t \in Texts :
       Send(c, t) =>
         /\ (c = "" \/ t = 0) =>
              /\ lastResult' = Result("send", c, "InvalidArgument")
              /\ UNCHANGED << feeds, channels, joiningQueue, promises >>
         /\ (c # "" /\ t # 0 /\ userProfile = Null) =>
              /\ lastResult' = Result("send", c, "NotConnected")
              /\ UNCHANGED << feeds, channels, joiningQueue, promises >>]_vars

\* C12 witness: a send was refused with NotConnected although a Channel for
\* the name is registered, and its feed is empty
C12_Witness ==
  \E c \in Names :
    /\ lastResult = Result("send", c, "NotConnected")
    /\ channels[c] # 0
    /\ feeds[c] = <<>>

\* C13: a post addressed to a name that has no live Channel fails with the
\* ChannelNotJoined error and appends nothing.
C13_PostWithoutChannelNotJoined ==
  [][\A c \in Names, t \in Texts :
       (Send(c, t) /\ t # 0 /\ userProfile # Null /\ channels[c] = 0) =>
         /\ lastResult' = Result("send", c, "ChannelNotJoined")
         /\ UNCHANGED feeds]_vars

\* C14: a successful sendText(c, text) appends exactly one Post to the feed
\* of c and none to another feed; its content is the text cut to its first
\* 2048 characters, its type is "text" and its author is the current
\* UserProfile, whose name is the username connect was given.
C14_SendAppendsOneTextPost ==
  [][\A c \in Names, t \in Texts :
       (Send(c, t) /\ lastResult' = Result("send", c, "ok")) =>
         /\ Len(feeds'[c]) = Len(feeds[c]) + 1
         /\ SubSeq(feeds'[c], 1, Len(feeds[c])) = feeds[c]
         /\ \A d \in Names \ {c} : feeds'[d] = feeds[d]
         /\ LET post == feeds'[c][Len(feeds'[c])] IN
              /\ post.content.kind = "text"
              /\ post.content.len = IF t > 2048 THEN 2048 ELSE t
              /\ post.meta.type = "text"
              /\ post.meta.from = userProfile
              /\ post.meta.from # Null
              /\ post.meta.from = optionsId]_vars

\* C14 witness: connected as "alice", a text was appended cut to 2048
C14_Witness ==
  \E c \in Names :
    /\ lastResult = Result("send", c, "ok")
    /\ online
    /\ feeds[c] = << Post(TextContent(2048), "alice", "text", <<>>) >>

\* C19: no entry is appended to a feed while online is false.
C19_AppendOnlyWhileOnline ==
  [][feeds' # feeds => online]_vars

\* the characters of a path after its last "/"
TrailingSegment(p) ==
  LET slashes == { i \in 1..Len(p) : p[i] = "/" }
      last == IF slashes = {} THEN 0
              ELSE CHOOSE i \in slashes : \A j \in slashes : j <= i
  IN SubSeq(p, last + 1, Len(p))

\* C15: when the caller's meta sets no type, the Post addFile appends has
\* type "file" for every buffer source, and for a path source it has type
\* "file" exactly when the trailing segment of the path the provider
\* returned equals the trailing segment of the directory (if present) or of
\* the filename, and "directory" otherwise.
C15_AddFileClassification ==
  [][\A op \in uploadsInFlight, path \in ReplyPaths :
       ( /\ AddFileDone(op, path)
         /\ lastResult' = Result("addFile", op.chan, "ok")
         /\ op.source.meta.type = Undefined ) =>
         LET post == feeds'[op.chan][Len(feeds'[op.chan])]
             given == IF op.source.directory # NoPath
                      THEN op.source.directory ELSE op.source.filename
         IN /\ Len(feeds'[op.chan]) = Len(feeds[op.chan]) + 1
            /\ post.meta.type \in {"file", "directory"}
            /\ (op.source.buffer /\ op.source.filename # NoPath) =>
                 post.meta.type = "file"
            /\ ~(op.source.buffer /\ op.source.filename # NoPath) =>
                 (post.meta.type = "file" <=>
                    TrailingSegment(path) = TrailingSegment(given))]_vars

\* C15 witness: a path source named "a" was appended as a directory
C15_Witness ==
  \E c \in Names :
    /\ lastResult = Result("addFile", c, "ok")
    /\ Len(feeds[c]) = 1
    /\ feeds[c][1].meta.type = "directory"
    /\ feeds[c][1].meta.name = <<"a">>

====
